---- MODULE Spec2Model ----
(***************************************************************************)
(* Model of src/Python/io/io.cpp: the pybind11 submodule "io" of Open3D.   *)
(* Twenty functions read_<kind> / write_<kind> are registered by           *)
(* pybind_io; each is a lambda that forwards to one routine of             *)
(* open3d::io.  The lambdas, their keyword signatures and defaults are     *)
(* modelled from io.cpp.  The routines of open3d::io (format resolution,   *)
(* codecs, point filtering, attribute suppression) are not part of io.cpp  *)
(* and are modelled from the design document.                              *)
(***************************************************************************)
EXTENDS Integers, Sequences, FiniteSets, TLC

VARIABLES files, call, docs, held, thr, locals

vars == <<files, call, docs, held, thr, locals>>

(***************************************************************************)
(* Kinds and directions of the twenty registered functions.                *)
(***************************************************************************)
Kinds ==
    {"image", "line_set", "point_cloud", "triangle_mesh", "voxel_grid",
     "pinhole_camera_intrinsic", "pinhole_camera_parameters",
     "pinhole_camera_trajectory", "feature", "pose_graph"}

Dirs == {"read", "write"}

(***************************************************************************)
(* The static table of shared argument docstrings: its keys.               *)
(***************************************************************************)
map_shared_argument_docstrings ==
    {"filename", "compressed", "format", "remove_nan_points",
     "remove_infinite_points", "quality", "write_ascii",
     "write_vertex_normals", "write_vertex_colors", "pointcloud", "mesh",
     "line_set", "image", "voxel_grid", "trajectory", "intrinsic",
     "parameters", "pose_graph", "feature"}

(***************************************************************************)
(* Entities.  Every kind is a record of the same shape: pts is the point   *)
(* or vertex sequence, normals and colors the optional parallel            *)
(* sequences, body the rest of the payload (0 when default-constructed).   *)
(***************************************************************************)
Entity(k, p, n, c, b) ==
    [kind |-> k, pts |-> p, normals |-> n, colors |-> c, body |-> b]

DefaultConstructed(k) == Entity(k, <<>>, <<>>, <<>>, 0)

PFin1 == <<"1", "0", "0">>
PFin2 == <<"0", "1", "1">>
PNaN == <<"nan", "0", "1">>
PInf == <<"0", "-inf", "1">>
PBoth == <<"inf", "1", "nan">>

HasNaN(p) == \E i \in 1..Len(p) : p[i] = "nan"
HasInf(p) == \E i \in 1..Len(p) : p[i] \in {"inf", "-inf"}

CloudFull ==
    Entity("point_cloud", <<PFin1, PNaN, PInf, PFin2, PBoth>>,
           <<"n1", "n2", "n3", "n4", "n5">>,
           <<"c1", "c2", "c3", "c4", "c5">>, 0)

CloudBare == Entity("point_cloud", <<PInf, PFin1, PNaN>>, <<>>, <<>>, 0)

MeshFull ==
    Entity("triangle_mesh", <<PFin1, PFin2, PNaN>>,
           <<"n1", "n2", "n3">>, <<"c1", "c2", "c3">>, 1)

\* The entities a caller passes to write_<kind>.
Samples(k) ==
    CASE k = "point_cloud" -> {CloudFull, CloudBare}
      [] k = "triangle_mesh" -> {MeshFull}
      [] OTHER -> {Entity(k, <<>>, <<>>, <<>>, 1)}

(***************************************************************************)
(* The file system.                                                        *)
(***************************************************************************)
Paths == {"m.PLY", "m.stl", "/nonexistent/path.ply"}

\* A path whose directory does not exist: nothing can be created there.
Unwritable == {"/nonexistent/path.ply"}

\* The file names a caller uses with a kind.
FileNames(k) == IF k = "triangle_mesh" THEN Paths ELSE Paths \ {"m.stl"}

NoFile ==
    [exists |-> FALSE, kind |-> "none", tag |-> "none",
     ent |-> DefaultConstructed("none")]

\* What a write that failed part-way may leave behind.
Truncated ==
    [exists |-> TRUE, kind |-> "garbage", tag |-> "none",
     ent |-> DefaultConstructed("none")]

Stored(k, t, e) == [exists |-> TRUE, kind |-> k, tag |-> t, ent |-> e]

(***************************************************************************)
(* open3d::io, as the design document describes it.                        *)
(*                                                                         *)
(* Extension Sniffer and Format Registry.                                  *)
(***************************************************************************)
Ext(filename) ==
    CASE filename = "m.PLY" -> "PLY"
      [] filename = "m.stl" -> "stl"
      [] filename = "/nonexistent/path.ply" -> "ply"
      [] OTHER -> ""

Lower(tag) == IF tag = "PLY" THEN "ply" ELSE tag

KnownTags(k) ==
    CASE k = "point_cloud" -> {"ply", "pcd"}
      [] k = "triangle_mesh" -> {"ply", "stl", "obj"}
      [] k = "line_set" -> {"ply"}
      [] k = "voxel_grid" -> {"ply"}
      [] k = "image" -> {"png", "jpg"}
      [] k = "pinhole_camera_trajectory" -> {"json", "log"}
      [] k = "feature" -> {"bin"}
      [] OTHER -> {"json"}

DefaultTag(k) ==
    CASE k \in {"point_cloud", "triangle_mesh", "line_set", "voxel_grid"} -> "ply"
      [] k = "image" -> "png"
      [] k = "feature" -> "bin"
      [] OTHER -> "json"

Sniff(k, filename) ==
    LET e == Lower(Ext(filename))
    IN  IF e \in KnownTags(k) THEN e ELSE DefaultTag(k)

ResolveTag(k, filename, format) ==
    IF Lower(format) = "auto" THEN Sniff(k, filename) ELSE Lower(format)

(***************************************************************************)
(* Validation/Filter stage: one pass per flag, NaN first.  An entry of a   *)
(* non-empty parallel sequence goes with its point.                        *)
(***************************************************************************)
RECURSIVE KeepIdx(_, _, _)
KeepIdx(s, keep, i) ==
    IF i > Len(s) THEN <<>>
    ELSE (IF i \in keep THEN <<s[i]>> ELSE <<>>) \o KeepIdx(s, keep, i + 1)

KeepPoints(e, keep) ==
    Entity(e.kind, KeepIdx(e.pts, keep, 1), KeepIdx(e.normals, keep, 1),
           KeepIdx(e.colors, keep, 1), e.body)

RemoveNaNPoints(e) ==
    KeepPoints(e, {i \in 1..Len(e.pts) : ~HasNaN(e.pts[i])})

RemoveInfinitePoints(e) ==
    KeepPoints(e, {i \in 1..Len(e.pts) : ~HasInf(e.pts[i])})

FilterStage(e, remove_nan_points, remove_infinite_points) ==
    LET a == IF remove_nan_points THEN RemoveNaNPoints(e) ELSE e
    IN  IF remove_infinite_points THEN RemoveInfinitePoints(a) ELSE a

(***************************************************************************)
(* Codecs.  A file decodes under the codec that wrote it.  A format may    *)
(* lack an optional attribute block.                                       *)
(***************************************************************************)
SupportsVertexAttributes(k, tag) == ~(k = "triangle_mesh" /\ tag = "stl")

Decodes(f, k, tag) == f.exists /\ f.kind = k /\ f.tag = tag

Encode(k, tag, e, write_vertex_normals, write_vertex_colors) ==
    LET sup == SupportsVertexAttributes(k, tag)
    IN  Entity(e.kind, e.pts,
               IF write_vertex_normals /\ sup THEN e.normals ELSE <<>>,
               IF write_vertex_colors /\ sup THEN e.colors ELSE <<>>,
               e.body)

(***************************************************************************)
(* The parameters of each routine that follow (filename, entity).          *)
(***************************************************************************)
NativeParams(routine) ==
    CASE routine = "WriteImage" -> <<"quality">>
      [] routine \in {"ReadLineSet", "ReadVoxelGrid"} -> <<"format">>
      [] routine = "ReadPointCloud" ->
            <<"format", "remove_nan_points", "remove_infinite_points">>
      [] routine \in {"WriteLineSet", "WritePointCloud", "WriteVoxelGrid"} ->
            <<"write_ascii", "compressed">>
      [] routine = "WriteTriangleMesh" ->
            <<"write_ascii", "compressed", "write_vertex_normals",
              "write_vertex_colors">>
      [] OTHER -> <<>>

\* The value a routine receives for its parameter `name`, or `dflt` when the
\* routine has no such parameter.
Param(routine, args, name, dflt) ==
    LET ps == NativeParams(routine)
    IN  IF \E i \in 1..Len(ps) : ps[i] = name /\ i <= Len(args)
        THEN args[CHOOSE i \in 1..Len(ps) : ps[i] = name]
        ELSE dflt

(***************************************************************************)
(* Unified facade, read: resolve the tag, look the codec up, decode,       *)
(* filter (point clouds).  On failure the entity is left as passed in.     *)
(***************************************************************************)
NativeRead(routine, k, fs, filename, e, args) ==
    LET tag == ResolveTag(k, filename, Param(routine, args, "format", "auto"))
        f   == fs[filename]
    IN  IF tag \notin KnownTags(k) \/ ~Decodes(f, k, tag)
        THEN [ok |-> FALSE, ent |-> e]
        ELSE [ok |-> TRUE,
              ent |-> IF k = "point_cloud"
                      THEN FilterStage(f.ent,
                               Param(routine, args, "remove_nan_points", FALSE),
                               Param(routine, args, "remove_infinite_points", FALSE))
                      ELSE f.ent]

(***************************************************************************)
(* Unified facade, write.  io is what the file system does to this write:  *)
(* "ok", "fail" (nothing written) or "partial" (a truncated file is left). *)
(* Nothing can be written in a directory that does not exist.              *)
(***************************************************************************)
IOOutcomes(filename) ==
    IF filename \in Unwritable THEN {"fail"} ELSE {"ok", "partial"}

NativeWrite(routine, k, fs, filename, e, args, io) ==
    LET tag == Sniff(k, filename)
    IN  IF filename \in Unwritable \/ io = "fail"
        THEN [ok |-> FALSE, files |-> fs]
        ELSE IF io = "partial"
        THEN [ok |-> FALSE, files |-> [fs EXCEPT ![filename] = Truncated]]
        ELSE [ok |-> TRUE,
              files |-> [fs EXCEPT ![filename] =
                  Stored(k, tag,
                      Encode(k, tag, e,
                          Param(routine, args, "write_vertex_normals", TRUE),
                          Param(routine, args, "write_vertex_colors", TRUE)))]]

(***************************************************************************)
(* pybind_io: the keyword signature of each registered function, after     *)
(* its two leading parameters (filename, and for a write the entity).      *)
(***************************************************************************)
OptParams(dir, k) ==
    CASE dir = "read" /\ k \in {"line_set", "voxel_grid"} -> <<"format">>
      [] dir = "read" /\ k = "point_cloud" ->
            <<"format", "remove_nan_points", "remove_infinite_points">>
      [] dir = "write" /\ k = "image" -> <<"quality">>
      [] dir = "write" /\ k \in {"line_set", "point_cloud", "voxel_grid"} ->
            <<"write_ascii", "compressed">>
      [] dir = "write" /\ k = "triangle_mesh" ->
            <<"write_ascii", "compressed", "write_vertex_normals",
              "write_vertex_colors">>
      [] OTHER -> <<>>

OptNames(dir, k) == {OptParams(dir, k)[i] : i \in 1..Len(OptParams(dir, k))}

\* The default each "name"_a = value gives.
DefaultArg(name) ==
    CASE name = "format" -> "auto"
      [] name = "remove_nan_points" -> TRUE
      [] name = "remove_infinite_points" -> TRUE
      [] name = "quality" -> 90
      [] name = "write_ascii" -> FALSE
      [] name = "compressed" -> FALSE
      [] name = "write_vertex_normals" -> TRUE
      [] name = "write_vertex_colors" -> TRUE

\* Faulty variant: the function takes any keyword and ignores those it does not know.
BindLenient(dir, k, kw) ==
    [ok   |-> TRUE,
     args |-> [n \in OptNames(dir, k) |->
                  IF n \in DOMAIN kw THEN kw[n] ELSE DefaultArg(n)]]

\* pybind11 argument binding: a keyword the signature does not name is a
\* TypeError; an omitted keyword takes its default.
Bind(dir, k, kw) ==
    [ok   |-> DOMAIN kw \subseteq OptNames(dir, k),
     args |-> [n \in OptNames(dir, k) |->
                  IF n \in DOMAIN kw THEN kw[n] ELSE DefaultArg(n)]]

(***************************************************************************)
(* The lambdas: the routine each one calls, the arguments it passes after  *)
(* (filename, entity), the entity it declares, and whether it returns the  *)
(* routine's result.                                                       *)
(***************************************************************************)
ReadRoutine(k) ==
    CASE k = "image" -> "ReadImage"
      [] k = "line_set" -> "ReadLineSet"
      [] k = "point_cloud" -> "ReadPointCloud"
      [] k = "triangle_mesh" -> "ReadTriangleMesh"
      [] k = "voxel_grid" -> "ReadVoxelGrid"
      [] k = "pinhole_camera_intrinsic" -> "ReadIJsonConvertible"
      [] k = "pinhole_camera_parameters" -> "ReadIJsonConvertible"
      [] k = "pinhole_camera_trajectory" -> "ReadPinholeCameraTrajectory"
      [] k = "feature" -> "ReadFeature"
      [] k = "pose_graph" -> "ReadPoseGraph"

WriteRoutine(k) ==
    CASE k = "image" -> "WriteImage"
      [] k = "line_set" -> "WriteLineSet"
      [] k = "point_cloud" -> "WritePointCloud"
      [] k = "triangle_mesh" -> "WriteTriangleMesh"
      [] k = "voxel_grid" -> "WriteVoxelGrid"
      [] k = "pinhole_camera_intrinsic" -> "WriteIJsonConvertible"
      [] k = "pinhole_camera_parameters" -> "WriteIJsonConvertible"
      [] k = "pinhole_camera_trajectory" -> "WritePinholeCameraTrajectory"
      [] k = "feature" -> "WriteFeature"
      [] k = "pose_graph" -> "WritePoseGraph"

\* Faulty variant: the pinhole_camera_parameters lambdas call the trajectory routines.
RoutineCrossed(dir, k) ==
    LET t == IF k = "pinhole_camera_parameters"
             THEN "pinhole_camera_trajectory" ELSE k
    IN  IF dir = "read" THEN ReadRoutine(t) ELSE WriteRoutine(t)

Routine(dir, k) == IF dir = "read" THEN ReadRoutine(k) ELSE WriteRoutine(k)

\* The bound arguments in signature order.
InOrder(dir, k, a) ==
    [i \in 1..Len(OptParams(dir, k)) |-> a[OptParams(dir, k)[i]]]

\* Faulty variant: read_point_cloud passes its two filter flags the wrong way round.
LambdaArgsFiltersSwapped(dir, k, a) ==
    IF dir = "read" /\ k = "point_cloud"
    THEN <<a["format"], a["remove_infinite_points"], a["remove_nan_points"]>>
    ELSE InOrder(dir, k, a)

\* Faulty variant: read_line_set does not pass its format on.
LambdaArgsFormatDropped(dir, k, a) ==
    IF dir = "read" /\ k = "line_set" THEN <<"auto">> ELSE InOrder(dir, k, a)

\* Faulty variant: write_point_cloud passes write_ascii and compressed the wrong way
\* round.
LambdaArgsAsciiCompressedSwapped(dir, k, a) ==
    IF dir = "write" /\ k = "point_cloud"
    THEN <<a["compressed"], a["write_ascii"]>>
    ELSE InOrder(dir, k, a)

\* Faulty variant: write_triangle_mesh passes its two attribute flags the wrong way
\* round.
LambdaArgsNormalsColorsSwapped(dir, k, a) ==
    IF dir = "write" /\ k = "triangle_mesh"
    THEN <<a["write_ascii"], a["compressed"], a["write_vertex_colors"],
           a["write_vertex_normals"]>>
    ELSE InOrder(dir, k, a)

LambdaArgs(dir, k, a) ==
    CASE dir = "read" /\ k \in {"line_set", "voxel_grid"} -> <<a["format"]>>
      [] dir = "read" /\ k = "point_cloud" ->
            <<a["format"], a["remove_nan_points"], a["remove_infinite_points"]>>
      [] dir = "write" /\ k = "image" -> <<a["quality"]>>
      [] dir = "write" /\ k \in {"line_set", "point_cloud", "voxel_grid"} ->
            <<a["write_ascii"], a["compressed"]>>
      [] dir = "write" /\ k = "triangle_mesh" ->
            <<a["write_ascii"], a["compressed"], a["write_vertex_normals"],
              a["write_vertex_colors"]>>
      [] OTHER -> <<>>

\* Faulty variant: the entity a read lambda fills is not a fresh one.
LocalEntityStale(k) == Entity(k, <<>>, <<>>, <<>>, 1)

\* "geometry::Image image;" and its like: the entity a read lambda declares.
LocalEntity(k) == DefaultConstructed(k)

\* Every write lambda is "return io::Write...(...)", but write_pose_graph,
\* whose body is the bare call statement.
ReturnsResult(dir, k) == dir = "write" /\ k # "pose_graph"

(***************************************************************************)
(* One call of a registered function, from argument binding to return.     *)
(***************************************************************************)
NoCall ==
    [dir |-> "none", kind |-> "none", filename |-> "", kw |-> <<>>,
     ent |-> DefaultConstructed("none"), raised |-> FALSE, natives |-> <<>>,
     retKind |-> "none", retBool |-> FALSE,
     retEnt |-> DefaultConstructed("none"), fileChanged |-> FALSE,
     entAddr |-> 0, retAddr |-> 0]

NativeCall(routine, filename, e, args, ok) ==
    [routine |-> routine, filename |-> filename, ent |-> e, args |-> args,
     ok |-> ok]

Raise(dir, k, filename, e, kw) ==
    [dir |-> dir, kind |-> k, filename |-> filename, kw |-> kw, ent |-> e,
     raised |-> TRUE, natives |-> <<>>, retKind |-> "TypeError",
     retBool |-> FALSE, retEnt |-> DefaultConstructed("none"),
     fileChanged |-> FALSE, entAddr |-> 0, retAddr |-> 0]

\* The caller's objects: held maps the address of each entity the caller
\* keeps to its value (ent) and to the value it had when the caller got it
\* (acquired).  A lambda returns its entity by value: the result is a new
\* object, at an address no object of the caller has.
MaxHeld == 1

\* Faulty variant: the result lives in one static object, handed out by reference.
PlaceStatic(h) == 1

Place(h) == CHOOSE a \in 1..(Cardinality(DOMAIN h) + 1) : a \notin DOMAIN h

ReadOutcome(k, fs, filename, kw) ==
    LET args == LambdaArgs("read", k, Bind("read", k, kw).args)
        r    == NativeRead(Routine("read", k), k, fs, filename,
                           LocalEntity(k), args)
    IN  [dir |-> "read", kind |-> k, filename |-> filename, kw |-> kw,
         ent |-> LocalEntity(k), raised |-> FALSE,
         natives |-> <<NativeCall(Routine("read", k), filename,
                                  LocalEntity(k), args, r.ok)>>,
         retKind |-> "entity", retBool |-> FALSE, retEnt |-> r.ent,
         fileChanged |-> FALSE, entAddr |-> 0, retAddr |-> 0]

WriteOutcome(k, fs, filename, e, kw, io) ==
    LET args == LambdaArgs("write", k, Bind("write", k, kw).args)
        r    == NativeWrite(Routine("write", k), k, fs, filename, e, args, io)
    IN  [files |-> r.files,
         call  |-> [dir |-> "write", kind |-> k, filename |-> filename,
                    kw |-> kw, ent |-> e, raised |-> FALSE,
                    natives |-> <<NativeCall(Routine("write", k), filename, e,
                                             args, r.ok)>>,
                    retKind |-> IF ReturnsResult("write", k) THEN "bool"
                                ELSE "None",
                    retBool |-> ReturnsResult("write", k) /\ r.ok,
                    retEnt |-> DefaultConstructed("none"),
                    fileChanged |-> r.files # fs, entAddr |-> 0,
                    retAddr |-> 0]]

(***************************************************************************)
(* What callers pass.  An option is omitted or given a value other than    *)
(* its default; format, given alone, takes several values; a function      *)
(* whose signature has no format may be called with one all the same.      *)
(***************************************************************************)
Formats == {"auto", "pcd", "PLY", "bogus"}

Given(name) ==
    CASE name = "quality" -> 50
      [] name \in {"write_ascii", "compressed"} -> TRUE
      [] name = "format" -> "ply"
      [] OTHER -> FALSE

KwChoices(dir, k) ==
    LET names == OptNames(dir, k)
        plain == {[n \in S |-> Given(n)] : S \in SUBSET names}
    IN  plain
        \cup (IF "format" \in names
              THEN {[n \in {"format"} |-> v] : v \in Formats} ELSE {})
        \cup (IF "format" \in names THEN {}
              ELSE {[n \in {"format"} |-> v] :
                       v \in IF k = "triangle_mesh" THEN {"ply", "bogus"}
                             ELSE {"ply"}})

\* The entities a caller can pass to write_<kind>: a sample (address 0: an
\* object the caller does not keep) or an entity of the kind it holds.
Passable(k) ==
    {[addr |-> 0, ent |-> e] : e \in Samples(k)}
    \cup {[addr |-> a, ent |-> held[a].ent] :
             a \in {b \in DOMAIN held : held[b].ent.kind = k}}

\* The result object of a read is written at its address.
Store(h, a, e) ==
    IF a \in DOMAIN h THEN [h EXCEPT ![a].ent = e] ELSE h

Read(k) ==
    \E filename \in FileNames(k), kw \in KwChoices("read", k) :
        /\ IF Bind("read", k, kw).ok
           THEN LET r == ReadOutcome(k, files, filename, kw)
                    a == Place(held)
                IN  /\ call' = [r EXCEPT !.retAddr = a]
                    /\ held' = Store(held, a, r.retEnt)
           ELSE /\ call' = Raise("read", k, filename, LocalEntity(k), kw)
                /\ held' = held
        /\ UNCHANGED <<files, docs, thr, locals>>

\* The entity is taken by const reference (write_pose_graph: by value, a
\* copy): the routine reads it and the caller's object is not written.
Write(k) ==
    \E filename \in FileNames(k), p \in Passable(k),
       kw \in KwChoices("write", k) : \E io \in IOOutcomes(filename) :
        /\ IF Bind("write", k, kw).ok
           THEN LET w == WriteOutcome(k, files, filename, p.ent, kw, io)
                IN  /\ call' = [w.call EXCEPT !.entAddr = p.addr]
                    /\ files' = w.files
           ELSE /\ call' = [Raise("write", k, filename, p.ent, kw)
                               EXCEPT !.entAddr = p.addr]
                /\ files' = files
        /\ UNCHANGED <<docs, held, thr, locals>>

\* The caller binds the entity the last read returned to a name of its own.
Keep ==
    /\ call.dir = "read" /\ ~call.raised
    /\ call.retAddr \notin DOMAIN held
    /\ Cardinality(DOMAIN held) < MaxHeld
    /\ held' = [a \in DOMAIN held \cup {call.retAddr} |->
                   IF a \in DOMAIN held THEN held[a]
                   ELSE [ent |-> call.retEnt, acquired |-> call.retEnt]]
    /\ call' = NoCall
    /\ UNCHANGED <<files, docs, thr, locals>>

\* The caller drops an entity it holds.
Release ==
    \E a \in DOMAIN held :
        /\ held' = [b \in DOMAIN held \ {a} |-> held[b]]
        /\ UNCHANGED <<files, call, docs, thr, locals>>

read_image == Read("image")
write_image == Write("image")
read_line_set == Read("line_set")
write_line_set == Write("line_set")
read_point_cloud == Read("point_cloud")
write_point_cloud == Write("point_cloud")
read_triangle_mesh == Read("triangle_mesh")
write_triangle_mesh == Write("triangle_mesh")
read_voxel_grid == Read("voxel_grid")
write_voxel_grid == Write("voxel_grid")
read_pinhole_camera_intrinsic == Read("pinhole_camera_intrinsic")
write_pinhole_camera_intrinsic == Write("pinhole_camera_intrinsic")
read_pinhole_camera_parameters == Read("pinhole_camera_parameters")
write_pinhole_camera_parameters == Write("pinhole_camera_parameters")
read_pinhole_camera_trajectory == Read("pinhole_camera_trajectory")
write_pinhole_camera_trajectory == Write("pinhole_camera_trajectory")
read_feature == Read("feature")
write_feature == Write("feature")
read_pose_graph == Read("pose_graph")
write_pose_graph == Write("pose_graph")

(***************************************************************************)
(* Calls issued by separate threads, each on a file of its own.  A call    *)
(* is three steps: the lambda is entered (arguments bound, for a read the  *)
(* entity declared), the routine runs, the lambda returns.                 *)
(***************************************************************************)
NumThreads == 2

Threads == 1..NumThreads

ThreadPath(t) ==
    CASE t = 1 -> "m.PLY"
      [] t = 2 -> "m.stl"
      [] OTHER -> "/nonexistent/path.ply"

ThreadKinds == {"line_set", "pose_graph"}

\* Faulty variant: the entity of a read lambda is one static object for all calls.
LocalSlotShared(t) == 1

\* The entity a lambda declares is an automatic variable: one per call.
LocalSlot(t) == t

IdleThread ==
    [pc |-> "idle", dir |-> "none", kind |-> "none", kw |-> <<>>,
     ent |-> DefaultConstructed("none"), io |-> "ok", before |-> NoFile,
     ok |-> FALSE, retKind |-> "none", retBool |-> FALSE,
     retEnt |-> DefaultConstructed("none")]

ThreadEnter(t) ==
    /\ thr[t].pc \in {"idle", "done"}
    /\ \E dir \in Dirs, k \in ThreadKinds :
       \E e \in IF dir = "read" THEN {LocalEntity(k)} ELSE Samples(k),
          io \in IF dir = "read" THEN {"ok"}
                ELSE IOOutcomes(ThreadPath(t)) \ {"partial"} :
          /\ Bind(dir, k, <<>>).ok
          /\ thr' = [thr EXCEPT ![t] =
                 [IdleThread EXCEPT !.pc = "entered", !.dir = dir, !.kind = k,
                                    !.ent = e, !.io = io,
                                    !.before = files[ThreadPath(t)]]]
          /\ locals' = IF dir = "read"
                       THEN [locals EXCEPT ![LocalSlot(t)] = LocalEntity(k)]
                       ELSE locals
    /\ UNCHANGED <<files, call, docs, held>>

ThreadNative(t) ==
    LET c    == thr[t]
        args == LambdaArgs(c.dir, c.kind, Bind(c.dir, c.kind, c.kw).args)
    IN  /\ c.pc = "entered"
        /\ IF c.dir = "read"
           THEN LET r == NativeRead(Routine("read", c.kind), c.kind, files,
                                    ThreadPath(t), locals[LocalSlot(t)], args)
                IN  /\ locals' = [locals EXCEPT ![LocalSlot(t)] = r.ent]
                    /\ thr' = [thr EXCEPT ![t].pc = "ran", ![t].ok = r.ok]
                    /\ files' = files
           ELSE LET r == NativeWrite(Routine("write", c.kind), c.kind, files,
                                     ThreadPath(t), c.ent, args, c.io)
                IN  /\ files' = r.files
                    /\ thr' = [thr EXCEPT ![t].pc = "ran", ![t].ok = r.ok]
                    /\ locals' = locals
        /\ UNCHANGED <<call, docs, held>>

ThreadReturn(t) ==
    LET c == thr[t]
    IN  /\ c.pc = "ran"
        /\ thr' = [thr EXCEPT ![t] =
               IF c.dir = "read"
               THEN [c EXCEPT !.pc = "done", !.retKind = "entity",
                              !.retEnt = locals[LocalSlot(t)]]
               ELSE [c EXCEPT !.pc = "done",
                              !.retKind = IF ReturnsResult("write", c.kind)
                                          THEN "bool" ELSE "None",
                              !.retBool = ReturnsResult("write", c.kind)
                                          /\ c.ok]]
        /\ UNCHANGED <<files, call, docs, held, locals>>

Enter == \E t \in Threads : ThreadEnter(t)
RunNative == \E t \in Threads : ThreadNative(t)
Return == \E t \in Threads : ThreadReturn(t)

Init ==
    /\ files = [p \in Paths |-> NoFile]
    /\ call = NoCall
    /\ docs = map_shared_argument_docstrings
    /\ held = <<>>
    /\ thr = [t \in Threads |-> IdleThread]
    /\ locals = [t \in Threads |-> DefaultConstructed("none")]

Next ==
    \/ read_image \/ write_image
    \/ read_line_set \/ write_line_set
    \/ read_point_cloud \/ write_point_cloud
    \/ read_triangle_mesh \/ write_triangle_mesh
    \/ read_voxel_grid \/ write_voxel_grid
    \/ read_pinhole_camera_intrinsic \/ write_pinhole_camera_intrinsic
    \/ read_pinhole_camera_parameters \/ write_pinhole_camera_parameters
    \/ read_pinhole_camera_trajectory \/ write_pinhole_camera_trajectory
    \/ read_feature \/ write_feature
    \/ read_pose_graph \/ write_pose_graph

Spec == Init /\ [][Next]_vars

\* The caller keeps, passes on and drops the entities it reads.
NextOwn ==
    \/ read_line_set \/ write_line_set
    \/ read_pose_graph \/ write_pose_graph
    \/ Keep \/ Release

SpecOwn == Init /\ [][NextOwn]_vars

\* Concurrent calls on pairwise distinct files.
NextThreads == Enter \/ RunNative \/ Return

SpecThreads == Init /\ [][NextThreads]_vars

(***************************************************************************)
(* Properties of the last call.                                            *)
(***************************************************************************)
Called(dir, k) == call.dir = dir /\ call.kind = k

\* The call went through to the routine (argument binding succeeded).
Forwarded == call.dir \in Dirs /\ ~call.raised

\* The one native call of a forwarded call.
N == call.natives[1]

\* The value of option `name` as the caller sees it: given, or `dflt`.
ArgOf(name, dflt) == IF name \in DOMAIN call.kw THEN call.kw[name] ELSE dflt

HasParam(routine, name) ==
    \E i \in 1..Len(NativeParams(routine)) : NativeParams(routine)[i] = name

\* The defaults the interface documents.
DocDefault(name) ==
    CASE name = "format" -> "auto"
      [] name = "remove_nan_points" -> TRUE
      [] name = "remove_infinite_points" -> TRUE
      [] name = "quality" -> 90
      [] name = "write_ascii" -> FALSE
      [] name = "compressed" -> FALSE
      [] name = "write_vertex_normals" -> TRUE
      [] name = "write_vertex_colors" -> TRUE

(***************************************************************************)
(* C1: every write_<kind> returns to its caller the boolean the native     *)
(* writer produced.  write_pose_graph returns None instead.                *)
(***************************************************************************)
C1_WriteReturnsNativeResult ==
    (call.dir = "write" /\ ~call.raised) =>
        (call.retKind = "bool" /\ call.retBool = N.ok)

(***************************************************************************)
(* C2 as stated: a read whose native read fails yields an empty entity     *)
(* and a false success indication.                                         *)
(***************************************************************************)
C2_FailedReadYieldsEmptyAndFalse ==
    (call.dir = "read" /\ ~call.raised /\ ~N.ok) =>
        /\ call.retEnt = DefaultConstructed(call.kind)
        /\ call.retKind \in {"bool", "entity_and_bool"}
        /\ ~call.retBool

(***************************************************************************)
(* C2 amended: a read whose native read fails returns the empty            *)
(* (default-constructed) entity of its kind and nothing else: the          *)
(* routine's false is dropped, and nothing is raised.                      *)
(***************************************************************************)
C2_FailedReadYieldsEmptyEntityOnly ==
    (call.dir = "read" /\ Len(call.natives) = 1 /\ ~N.ok) =>
        /\ call.retEnt = DefaultConstructed(call.kind)
        /\ call.retKind = "entity"
        /\ ~call.raised

C2_Witness ==
    /\ call.dir = "read" /\ ~call.raised /\ ~N.ok
    /\ files[call.filename].exists

\* The caller gave a format that is no tag of the kind.
UnknownFormatGiven ==
    /\ "format" \in DOMAIN call.kw
    /\ Lower(call.kw["format"]) \notin KnownTags(call.kind) \cup {"auto"}

(***************************************************************************)
(* C3 as stated: write_triangle_mesh given a format that names no codec    *)
(* returns false and leaves the target file as it was.                     *)
(***************************************************************************)
C3_UnknownFormatWriteReturnsFalse ==
    (Called("write", "triangle_mesh") /\ UnknownFormatGiven) =>
        /\ call.retKind = "bool" /\ ~call.retBool
        /\ ~call.fileChanged

(***************************************************************************)
(* C3 amended: write_triangle_mesh has no format parameter; a call that    *)
(* gives one, known or not, is rejected at argument binding with a         *)
(* TypeError: no value is returned, the writer is not called and the       *)
(* target file is as it was.                                               *)
(***************************************************************************)
C3_FormatKeywordRejected ==
    (Called("write", "triangle_mesh") /\ "format" \in DOMAIN call.kw) =>
        /\ call.raised /\ call.retKind = "TypeError"
        /\ call.natives = <<>>
        /\ ~call.fileChanged

C3_Witness ==
    /\ Called("write", "triangle_mesh") /\ UnknownFormatGiven
    /\ files[call.filename].exists /\ files[call.filename].kind = "triangle_mesh"

(***************************************************************************)
(* Subsequences: what a filter may keep.                                   *)
(***************************************************************************)
Unwanted(p, rn, ri) == (rn /\ HasNaN(p)) \/ (ri /\ HasInf(p))

\* The j-th smallest element of a set of indices.
Nth(S, j) == CHOOSE i \in S : Cardinality({x \in S : x <= i}) = j

\* res is src with exactly the entries at the indices outside `keep` dropped.
Aligned(res, src, keep) ==
    IF src = <<>> THEN res = <<>>
    ELSE /\ Len(res) = Cardinality(keep)
         /\ \A j \in 1..Len(res) : res[j] = src[Nth(keep, j)]

(***************************************************************************)
(* C4: read_point_cloud drops exactly the points its flags ask it to drop  *)
(* (NaN for remove_nan_points, infinite for remove_infinite_points), in    *)
(* file order, and every surviving point keeps the normal and the color    *)
(* it had in the file; with both flags true no NaN or infinite point is    *)
(* left; a flag that is false keeps its points.  Nothing is filtered on    *)
(* write or for another kind.                                              *)
(***************************************************************************)
C4_FilterOnPointCloudRead ==
    /\ (Called("read", "point_cloud") /\ Forwarded /\ N.ok) =>
          LET src  == files[call.filename].ent
              rn   == ArgOf("remove_nan_points", TRUE)
              ri   == ArgOf("remove_infinite_points", TRUE)
              keep == {i \in 1..Len(src.pts) : ~Unwanted(src.pts[i], rn, ri)}
              res  == call.retEnt
          IN  /\ Len(res.pts) = Cardinality(keep)
              /\ Aligned(res.pts, src.pts, keep)
              /\ Aligned(res.normals, src.normals, keep)
              /\ Aligned(res.colors, src.colors, keep)
              /\ (rn /\ ri) =>
                    \A j \in 1..Len(res.pts) :
                        ~HasNaN(res.pts[j]) /\ ~HasInf(res.pts[j])
    /\ (Called("write", "point_cloud") /\ Forwarded /\ N.ok) =>
          files[call.filename].ent = call.ent
    /\ (call.dir = "read" /\ call.kind # "point_cloud" /\ Forwarded /\ N.ok) =>
          call.retEnt = files[call.filename].ent

C4_Witness ==
    /\ Called("read", "point_cloud") /\ Forwarded /\ N.ok
    /\ DOMAIN call.kw = {}
    /\ files[call.filename].ent = CloudFull
    /\ call.retEnt.pts = <<PFin1, PFin2>>
    /\ call.retEnt.normals = <<"n1", "n4">>

(***************************************************************************)
(* C5 as stated: every read_<kind> accepts format, and the value given     *)
(* (or "auto") is the format tag the native reader receives.               *)
(***************************************************************************)
C5_EveryReadTakesFormat ==
    call.dir = "read" =>
        /\ ~call.raised
        /\ HasParam(N.routine, "format")
        /\ Param(N.routine, N.args, "format", "auto") = ArgOf("format", "auto")

\* The reads whose signature has a format.
FormatReads == {"line_set", "point_cloud", "voxel_grid"}

(***************************************************************************)
(* C5 amended: read_line_set, read_point_cloud and read_voxel_grid accept  *)
(* format, default "auto", and hand the value to the native reader.  The   *)
(* other seven reads have no format parameter: a call that gives one is    *)
(* rejected, and the reader is called with the file name and the entity    *)
(* alone.  When the tag is "auto" or absent, a read succeeds only on a     *)
(* file stored under the tag of the file name's extension (the kind's      *)
(* default tag when the extension is not one of the kind's tags).          *)
(***************************************************************************)
C5_FormatOnThreeReads ==
    call.dir = "read" =>
        /\ call.kind \in FormatReads =>
              /\ ~call.raised
              /\ HasParam(N.routine, "format")
              /\ Param(N.routine, N.args, "format", "absent")
                    = ArgOf("format", "auto")
        /\ call.kind \notin FormatReads =>
              /\ call.raised <=> "format" \in DOMAIN call.kw
              /\ call.raised => call.natives = <<>>
              /\ ~call.raised => N.args = <<>>
        /\ (~call.raised /\ N.ok /\ ArgOf("format", "auto") = "auto") =>
              LET e == Lower(Ext(call.filename))
              IN  files[call.filename].tag =
                      IF e \in KnownTags(call.kind) THEN e
                      ELSE DefaultTag(call.kind)

C5_Witness ==
    /\ Called("read", "voxel_grid") /\ Forwarded /\ N.ok
    /\ "format" \in DOMAIN call.kw /\ call.kw["format"] = "PLY"

(***************************************************************************)
(* C6: on every call that goes through, each option of the function, given *)
(* or omitted, reaches the routine's parameter of the same name with the   *)
(* value given or the documented default; the filters are options of       *)
(* read_point_cloud only, quality of write_image only, the vertex          *)
(* attribute flags of write_triangle_mesh only.                            *)
(***************************************************************************)
C6_OptionsReachNative ==
    /\ Forwarded =>
          /\ DOMAIN call.kw \subseteq OptNames(call.dir, call.kind)
          /\ Len(N.args) = Len(NativeParams(N.routine))
          /\ \A n \in OptNames(call.dir, call.kind) :
                /\ HasParam(N.routine, n)
                /\ Param(N.routine, N.args, n, "absent")
                      = ArgOf(n, DocDefault(n))
    /\ \A dir \in Dirs, k \in Kinds :
          /\ {"remove_nan_points", "remove_infinite_points"}
                \cap OptNames(dir, k) # {}
                => (dir = "read" /\ k = "point_cloud")
          /\ "quality" \in OptNames(dir, k) => (dir = "write" /\ k = "image")
          /\ {"write_vertex_normals", "write_vertex_colors"}
                \cap OptNames(dir, k) # {}
                => (dir = "write" /\ k = "triangle_mesh")
    /\ OptNames("read", "point_cloud")
          = {"format", "remove_nan_points", "remove_infinite_points"}
    /\ OptNames("write", "image") = {"quality"}
    /\ OptNames("write", "triangle_mesh")
          = {"write_ascii", "compressed", "write_vertex_normals",
             "write_vertex_colors"}

C6_Witness ==
    /\ Called("write", "triangle_mesh") /\ Forwarded
    /\ DOMAIN call.kw = {"compressed", "write_vertex_normals"}
    /\ N.args = <<FALSE, TRUE, FALSE, TRUE>>

(***************************************************************************)
(* Reading back, with no option given, the file the last call wrote.       *)
(***************************************************************************)
ReadBack == ReadOutcome(call.kind, files, call.filename, <<>>).retEnt

MeshWritten == Called("write", "triangle_mesh") /\ Forwarded /\ N.ok

(***************************************************************************)
(* C7 as stated: a mesh written with write_vertex_colors = false reads     *)
(* back with no colors and the original vertices and triangles, likewise   *)
(* for write_vertex_normals; with a flag true the attribute present on     *)
(* the mesh is written.                                                    *)
(***************************************************************************)
C7_SuppressionAndPresence ==
    MeshWritten =>
        /\ ReadBack.pts = call.ent.pts /\ ReadBack.body = call.ent.body
        /\ ReadBack.colors =
              IF ArgOf("write_vertex_colors", TRUE) THEN call.ent.colors
              ELSE <<>>
        /\ ReadBack.normals =
              IF ArgOf("write_vertex_normals", TRUE) THEN call.ent.normals
              ELSE <<>>

(***************************************************************************)
(* C7 amended: a mesh written with write_vertex_colors = false reads back  *)
(* with no colors and the original vertices and triangles, likewise for    *)
(* write_vertex_normals; with a flag true the attribute present on the     *)
(* mesh is written when the format of the file has a block for it, and     *)
(* is dropped when it has none.                                            *)
(***************************************************************************)
C7_SuppressionRoundTrip ==
    MeshWritten =>
        LET sup == SupportsVertexAttributes("triangle_mesh",
                                            files[call.filename].tag)
        IN  /\ ReadBack.pts = call.ent.pts /\ ReadBack.body = call.ent.body
            /\ ReadBack.colors =
                  IF ArgOf("write_vertex_colors", TRUE) /\ sup
                  THEN call.ent.colors ELSE <<>>
            /\ ReadBack.normals =
                  IF ArgOf("write_vertex_normals", TRUE) /\ sup
                  THEN call.ent.normals ELSE <<>>

C7_Witness ==
    /\ MeshWritten
    /\ DOMAIN call.kw = {"write_vertex_colors"}
    /\ call.ent.colors # <<>>
    /\ files[call.filename].tag = "ply"
    /\ ReadBack.colors = <<>> /\ ReadBack.normals = call.ent.normals

(***************************************************************************)
(* The routine of open3d::io that belongs to a kind and a direction, and   *)
(* the generic routine for IJsonConvertible objects.                       *)
(***************************************************************************)
JsonRoutine(dir) ==
    IF dir = "read" THEN "ReadIJsonConvertible" ELSE "WriteIJsonConvertible"

KindRoutine(dir, k) ==
    CASE k = "image" -> IF dir = "read" THEN "ReadImage" ELSE "WriteImage"
      [] k = "line_set" -> IF dir = "read" THEN "ReadLineSet" ELSE "WriteLineSet"
      [] k = "point_cloud" ->
            IF dir = "read" THEN "ReadPointCloud" ELSE "WritePointCloud"
      [] k = "triangle_mesh" ->
            IF dir = "read" THEN "ReadTriangleMesh" ELSE "WriteTriangleMesh"
      [] k = "voxel_grid" ->
            IF dir = "read" THEN "ReadVoxelGrid" ELSE "WriteVoxelGrid"
      [] k = "pinhole_camera_trajectory" ->
            IF dir = "read" THEN "ReadPinholeCameraTrajectory"
            ELSE "WritePinholeCameraTrajectory"
      [] k = "feature" -> IF dir = "read" THEN "ReadFeature" ELSE "WriteFeature"
      [] k = "pose_graph" ->
            IF dir = "read" THEN "ReadPoseGraph" ELSE "WritePoseGraph"
      [] OTHER -> JsonRoutine(dir)

OneCallOnOwnData ==
    /\ Len(call.natives) = 1
    /\ N.filename = call.filename
    /\ N.ent = call.ent

(***************************************************************************)
(* C10 as stated: every call that goes through makes exactly one native    *)
(* call, to a routine of its own kind and direction, on the file name and  *)
(* entity it was given; pinhole_camera_intrinsic,                          *)
(* pinhole_camera_parameters and pose_graph all use the generic            *)
(* IJsonConvertible routine.                                               *)
(***************************************************************************)
C10_DelegatesJsonForThreeKinds ==
    Forwarded =>
        /\ OneCallOnOwnData
        /\ N.routine =
              IF call.kind \in {"pinhole_camera_intrinsic",
                                "pinhole_camera_parameters", "pose_graph"}
              THEN JsonRoutine(call.dir)
              ELSE KindRoutine(call.dir, call.kind)

(***************************************************************************)
(* C10 amended: every call that goes through makes exactly one native      *)
(* call, to a routine of its own kind and direction, on the file name and  *)
(* entity it was given; pinhole_camera_intrinsic and                       *)
(* pinhole_camera_parameters use the generic IJsonConvertible routine,     *)
(* pose_graph its own ReadPoseGraph / WritePoseGraph.                      *)
(***************************************************************************)
C10_DelegatesOnce ==
    Forwarded =>
        /\ OneCallOnOwnData
        /\ N.routine = KindRoutine(call.dir, call.kind)

C10_Witness ==
    /\ Called("read", "pose_graph") /\ Forwarded /\ N.ok
    /\ N.routine = "ReadPoseGraph"

(***************************************************************************)
(* C9: no call changes an entity the caller holds, be it one an earlier    *)
(* read returned or one passed to a write (that succeeds or fails); a      *)
(* read fills an entity created empty for that call, and the entity it     *)
(* returns is a new object, aliased with none the caller holds.            *)
(***************************************************************************)
C9_CallerOwnsEntities ==
    /\ \A a \in DOMAIN held : held[a].ent = held[a].acquired
    /\ (call.dir = "read" /\ ~call.raised) =>
          /\ call.ent = DefaultConstructed(call.kind)
          /\ call.retAddr \notin DOMAIN held
    /\ (call.dir = "write" /\ call.entAddr # 0) =>
          /\ call.entAddr \in DOMAIN held => held[call.entAddr].ent = call.ent
          /\ ~call.raised => N.ent = call.ent

C9_Witness ==
    /\ \E a \in DOMAIN held :
          /\ held[a].ent.body = 1
          /\ call.dir = "read" /\ ~call.raised /\ N.ok
          /\ call.retEnt = held[a].ent /\ call.retAddr # a

(***************************************************************************)
(* The completed call of thread t agrees with the same call run alone on   *)
(* the file as it was when the call began.                                 *)
(***************************************************************************)
AsAlone(t) ==
    LET c   == thr[t]
        fs0 == [files EXCEPT ![ThreadPath(t)] = c.before]
    IN  IF c.dir = "read"
        THEN LET r == ReadOutcome(c.kind, fs0, ThreadPath(t), c.kw)
             IN  /\ c.retKind = r.retKind /\ c.retEnt = r.retEnt
                 /\ c.ok = r.natives[1].ok
                 /\ files[ThreadPath(t)] = c.before
        ELSE LET w == WriteOutcome(c.kind, fs0, ThreadPath(t), c.ent, c.kw,
                                   c.io)
             IN  /\ c.retKind = w.call.retKind /\ c.retBool = w.call.retBool
                 /\ c.ok = w.call.natives[1].ok
                 /\ files[ThreadPath(t)] = w.files[ThreadPath(t)]

(***************************************************************************)
(* C8: the shared argument table is never modified, and every call a       *)
(* thread completes on its own file, however the steps of the threads      *)
(* interleave, returns what the same call returns run alone on the file    *)
(* as it was when the call began, and leaves the file as that call         *)
(* leaves it.                                                              *)
(***************************************************************************)
C8_ThreadsAsAlone ==
    /\ docs = map_shared_argument_docstrings
    /\ \A t \in Threads : thr[t].pc = "done" => AsAlone(t)

C8_Witness ==
    /\ thr[1].pc = "done" /\ thr[1].dir = "read" /\ thr[1].ok
    /\ thr[2].pc = "ran" /\ thr[2].dir = "read" /\ ~thr[2].ok

====
